---- MODULE Spec2Model ----
(***************************************************************************)
(* The aws_redshift_snapshot_copy_grant resource: the five lifecycle       *)
(* callbacks (Create, Read, Update, Delete, Exists), the two polling       *)
(* helpers built on resource.Retry, and the paginated lookup by name.      *)
(*                                                                         *)
(* One step of the model is one call of the Redshift API (or the code      *)
(* between two calls), because the remote side may answer differently      *)
(* from one call to the next.                                              *)
(***************************************************************************)
EXTENDS Naturals, Sequences, FiniteSets, TLC

VARIABLES
    cfgName,      \* snapshot_copy_grant_name of the configuration
    id,           \* d.Id()
    attrs,        \* what d.Set stored: arn, kms_key_id, snapshot_copy_grant_name
    remote,       \* KMS key of the grant cfgName on the service, NoKms if there is none
    op,           \* the callback that is running, or that ran last
    pc,           \* where that callback is
    tagsChanged,  \* d.HasChange("tags") of the running Update
    calls,        \* calls of the create, delete and tag APIs by the running callback
    apiErr,       \* error of the callback's own call of the create, delete or tag API
    described,    \* has the running callback called DescribeSnapshotCopyGrants
    helper,       \* the polling helper in use: "find", "wait" or "none"
    phase,        \* "retry": inside resource.Retry; "final": the lookup after a timeout
    attempts,     \* calls of the retry function so far
    timedOut,     \* the 3 minutes of resource.Retry are over
    input,        \* the last DescribeSnapshotCopyGrantsInput sent
    marker,       \* parameter marker of the lookup about to send a request
    out,          \* the last DescribeSnapshotCopyGrants answer
    hits,         \* per page of the running lookup: does it list a grant named grantName
    grant,        \* variable grant of the helper
    ferr,         \* error of the most recent findAwsRedshiftSnapshotCopyGrant
    err,          \* variable err of the helper (what resource.Retry returned)
    hret,         \* what the helper returned
    ret           \* what the callback returned

vars == <<cfgName, id, attrs, remote, op, pc, tagsChanged, calls, apiErr, described,
          helper, phase,
          attempts, timedOut, input, marker, out, hits, grant, ferr, err, hret, ret>>

(***************************************************************************)
(* Bounds                                                                  *)
(***************************************************************************)
\* pages a marker chain may have
MaxPages == 2
\* grants a page may list
MaxPerPage == 2
\* calls of the retry function before the retry timeout must fire
MaxAttempts == 2

Names == {"g1", "g2"}
Kms == {"k1", "k2"}
Markers == {"m1", "m2"}
NoKms == ""
NoMarker == ""
NoName == ""
DefaultKms == "k1"

(***************************************************************************)
(* Values                                                                  *)
(***************************************************************************)
Grants == [name : Names, kms : Kms]
NoGrant == [name |-> "<nil>", kms |-> "<nil>"]

Pages == UNION {[1..n -> Grants] : n \in 0..MaxPerPage}

\* error values: the dynamic type and the pieces of the message
Nil == [type |-> "nil", text |-> <<>>]
ErrCodeSnapshotCopyGrantNotFoundFault == "SnapshotCopyGrantNotFoundFault"
AwsErr(code) == [type |-> "awserr", text |-> <<code>>]
TimeoutError == [type |-> "TimeoutError", text |-> <<>>]
NotFoundError(grantName) ==
    [type |-> "NotFoundError", text |-> <<"Grant not found", grantName>>]
\* fmt.Errorf("...: %s", e): a new plain error that keeps only e's message
Errorf(prefix, e) == [type |-> "errorString", text |-> <<prefix>> \o e.text]

isAWSErr(e, code) == e.type = "awserr" /\ e.text[1] = code
isResourceTimeoutError(e) == e.type = "TimeoutError"

NoArn == <<>>
NoAttrs == [arn |-> NoArn, kms_key_id |-> "", snapshot_copy_grant_name |-> ""]
NoCalls == [create |-> 0, delete |-> 0, tags |-> 0]
NoInput == [Marker |-> NoMarker, SnapshotCopyGrantName |-> NoName, sent |-> FALSE]
NoOut == [err |-> Nil, grants |-> <<>>, marker |-> NoMarker]
NoHret == [grant |-> NoGrant, err |-> Nil]
NoRet == [found |-> FALSE, err |-> Nil]

\* the answers DescribeSnapshotCopyGrants can give to the n+1-th request of a lookup
Responses(n) ==
    {[err |-> AwsErr(c), grants |-> <<>>, marker |-> NoMarker] :
        c \in {ErrCodeSnapshotCopyGrantNotFoundFault, "InternalFailure"}}
    \cup
    [err : {Nil}, grants : Pages,
     marker : IF n + 1 < MaxPages THEN Markers \cup {NoMarker} ELSE {NoMarker}]

(***************************************************************************)
(* getAwsRedshiftSnapshotCopyGrant: the first grant of the page with the   *)
(* name, nil if there is none.                                             *)
(***************************************************************************)
RECURSIVE grantFrom(_, _, _)
grantFrom(grants, grantName, i) ==
    IF i > Len(grants) THEN NoGrant
    ELSE IF grants[i].name = grantName THEN grants[i]
    ELSE grantFrom(grants, grantName, i + 1)

\* as getAwsRedshiftSnapshotCopyGrant, but the loop goes on after a match
getAwsRedshiftSnapshotCopyGrantLast(grants, grantName) ==
    IF \E i \in 1..Len(grants) : grants[i].name = grantName
    THEN grants[CHOOSE i \in 1..Len(grants) :
                  /\ grants[i].name = grantName
                  /\ \A j \in 1..Len(grants) : grants[j].name = grantName => j <= i]
    ELSE NoGrant

getAwsRedshiftSnapshotCopyGrant(grants, grantName) == grantFrom(grants, grantName, 1)

\* grantName of the running callback: d.Id() in Read, Delete and Exists, and in
\* Create the configured name, which Create has stored as the ID before Read
grantName == id


(***************************************************************************)
(* findAwsRedshiftSnapshotCopyGrant, one request at a time.                *)
(***************************************************************************)
\* as describeInput, without the else: the name is always set
describeInputAlwaysNamed(name, mark) ==
    [Marker |-> mark, SnapshotCopyGrantName |-> name, sent |-> TRUE]

\* the request: marker and grant name are mutually exclusive
describeInput(name, mark) ==
    IF mark # NoMarker
    THEN [Marker |-> mark, SnapshotCopyGrantName |-> NoName, sent |-> TRUE]
    ELSE [Marker |-> NoMarker, SnapshotCopyGrantName |-> name, sent |-> TRUE]

\* what the lookup does with an answer: return (grant, err), or go on with
\* the next page
findStep(resp, name) ==
    IF resp.err # Nil
    THEN [next |-> FALSE, grant |-> NoGrant, err |-> resp.err]
    ELSE LET g == getAwsRedshiftSnapshotCopyGrant(resp.grants, name) IN
         IF g # NoGrant THEN [next |-> FALSE, grant |-> g, err |-> Nil]
         ELSE IF resp.marker # NoMarker
         THEN [next |-> TRUE, grant |-> NoGrant, err |-> Nil]
         ELSE [next |-> FALSE, grant |-> NoGrant, err |-> NotFoundError(name)]

\* grant and ferr are assigned when the lookup returns, not before
findAwsRedshiftSnapshotCopyGrant ==
    /\ pc = "describe"
    /\ \E resp \in Responses(Len(hits)) :
         LET r == findStep(resp, grantName) IN
         /\ input' = describeInput(grantName, marker)
         /\ out' = resp
         /\ described' = TRUE
         /\ hits' = Append(hits, \E i \in 1..Len(resp.grants) :
                                    resp.grants[i].name = grantName)
         /\ IF r.next
            THEN /\ marker' = resp.marker
                 /\ UNCHANGED <<grant, ferr, pc>>
            ELSE /\ grant' = r.grant
                 /\ ferr' = r.err
                 /\ pc' = "attempt_done"
                 /\ UNCHANGED marker
    /\ UNCHANGED <<cfgName, id, attrs, remote, op, tagsChanged, calls, apiErr, helper,
                   phase, attempts, timedOut, err, hret, ret>>

(***************************************************************************)
(* resource.Retry around the lookup.  The retry function's answer is       *)
(* success, a retryable error or a non-retryable error.                    *)
(***************************************************************************)
RetryableError(e) == [kind |-> "retryable", err |-> e]
NonRetryableError(e) == [kind |-> "nonretryable", err |-> e]
RetrySuccess == [kind |-> "success", err |-> Nil]

\* as findRetryFunc, but every error is retried
findRetryFuncRetriesAll(g, e) ==
    IF e # Nil THEN RetryableError(e) ELSE RetrySuccess

\* the function findAwsRedshiftSnapshotCopyGrantWithRetry hands to Retry
findRetryFunc(g, e) ==
    IF e # Nil
    THEN IF e.type = "NotFoundError" THEN RetryableError(e) ELSE NonRetryableError(e)
    ELSE RetrySuccess

\* the function waitForAwsRedshiftSnapshotCopyGrantToBeDeleted hands to Retry
waitRetryFunc(g, e) ==
    IF e # Nil /\ isAWSErr(e, ErrCodeSnapshotCopyGrantNotFoundFault)
    THEN RetrySuccess
    ELSE IF g # NoGrant
    THEN RetryableError(Errorf("Grant still exists while expected to be deleted", 
                               [type |-> "errorString", text |-> <<g.name>>]))
    ELSE NonRetryableError(e)

retryFunc == IF helper = "find" THEN findRetryFunc(grant, ferr)
             ELSE waitRetryFunc(grant, ferr)

\* the locals of findAwsRedshiftSnapshotCopyGrant
lookupVars == <<input, marker, out, hits>>

\* they are gone once the lookup has returned
lookupOver ==
    /\ input' = NoInput
    /\ marker' = NoMarker
    /\ out' = NoOut
    /\ hits' = <<>>

\* Retry returns: the function succeeded (nil) or failed for good (its error)
RetryReturn ==
    /\ pc = "attempt_done" /\ phase = "retry"
    /\ retryFunc.kind \in {"success", "nonretryable"}
    /\ err' = retryFunc.err
    /\ pc' = "after_retry"
    /\ UNCHANGED <<cfgName, id, attrs, remote, op, tagsChanged, calls, apiErr, described, helper,
                   phase, attempts, timedOut, grant, ferr, hret, ret>>
    /\ lookupOver

\* Retry calls the function again after a retryable error
RetryAgain ==
    /\ pc = "attempt_done" /\ phase = "retry"
    /\ retryFunc.kind = "retryable"
    /\ attempts < MaxAttempts
    /\ attempts' = attempts + 1
    /\ UNCHANGED timedOut
    /\ lookupOver
    /\ pc' = "describe"
    /\ UNCHANGED <<cfgName, id, attrs, remote, op, tagsChanged, calls, apiErr, described, helper,
                   phase, grant, ferr, err, hret, ret>>

\* the 3 minutes are over after a retryable error: Retry reports the timeout,
\* as a TimeoutError without LastError or as the error of the last call
RetryTimeout ==
    /\ pc = "attempt_done" /\ phase = "retry"
    /\ retryFunc.kind = "retryable"
    /\ \E e \in {TimeoutError, retryFunc.err} : err' = e
    /\ timedOut' = TRUE
    /\ pc' = "after_retry"
    /\ UNCHANGED <<cfgName, id, attrs, remote, op, tagsChanged, calls, apiErr, described,
                   helper, phase, attempts, grant, ferr, hret, ret>>
    /\ lookupOver

\* as FinalLookup, without the test of isResourceTimeoutError
FinalLookupAlways ==
    /\ pc = "after_retry"
    /\ phase' = "final"
    /\ pc' = "describe"
    /\ UNCHANGED <<cfgName, id, attrs, remote, op, tagsChanged, calls, apiErr, described, helper,
                   attempts, timedOut, grant, ferr, err, hret, ret>>
    /\ UNCHANGED lookupVars

\* if isResourceTimeoutError(err): one more lookup
FinalLookup ==
    /\ pc = "after_retry"
    /\ isResourceTimeoutError(err)
    /\ phase' = "final"
    /\ pc' = "describe"
    /\ UNCHANGED <<cfgName, id, attrs, remote, op, tagsChanged, calls, apiErr, described, helper,
                   attempts, timedOut, grant, ferr, err, hret, ret>>
    /\ UNCHANGED lookupVars

\* as findWithRetryTail, without the test of err
findWithRetryTailDropsError(g, e) == [grant |-> g, err |-> Nil]

\* the end of findAwsRedshiftSnapshotCopyGrantWithRetry
findWithRetryTail(g, e) ==
    IF e # Nil
    THEN [grant |-> NoGrant, err |-> Errorf("Error finding snapshot copy grant", e)]
    ELSE [grant |-> g, err |-> Nil]

\* the end of waitForAwsRedshiftSnapshotCopyGrantToBeDeleted
waitTail(g, e) ==
    IF e # Nil
    THEN [grant |-> NoGrant,
          err |-> Errorf("Error waiting for snapshot copy grant to be deleted", e)]
    ELSE [grant |-> NoGrant, err |-> Nil]

\* after the final lookup of the wait: not found is success
waitFinal(g, e) ==
    IF isAWSErr(e, ErrCodeSnapshotCopyGrantNotFoundFault)
    THEN [grant |-> NoGrant, err |-> Nil]
    ELSE waitTail(g, e)

\* grant, err = findAwsRedshiftSnapshotCopyGrant(...) after the timeout: the
\* helper's err is from now on the error of that lookup
\* (as errAfterFinal, with grant, err := ... declaring new variables)
errAfterFinalShadowed(retryErr, lookupErr) == retryErr

errAfterFinal(retryErr, lookupErr) == lookupErr

\* the helper returns: after Retry when that was no timeout, or after the
\* final lookup, whose error is then the helper's err
HelperReturn ==
    /\ \/ pc = "after_retry" /\ ~isResourceTimeoutError(err)
       \/ pc = "attempt_done" /\ phase = "final"
    /\ LET e == IF phase = "final" THEN errAfterFinal(err, ferr) ELSE err IN
       /\ err' = e
       /\ hret' = IF helper = "find" THEN findWithRetryTail(grant, e)
                  ELSE IF phase = "final" THEN waitFinal(grant, e)
                  ELSE waitTail(grant, e)
    /\ pc' = "helper_ret"
    /\ lookupOver
    /\ UNCHANGED <<cfgName, id, attrs, remote, op, tagsChanged, calls, apiErr, described, helper,
                   phase, attempts, timedOut, grant, ferr, ret>>


(***************************************************************************)
(* The callbacks.  The plugin framework calls one at a time: Create on a   *)
(* resource without ID, the others on a resource that has one.             *)
(***************************************************************************)
\* a callback starts with nothing left over from the one before
freshLocals ==
    /\ calls' = NoCalls
    /\ apiErr' = Nil
    /\ described' = FALSE
    /\ grant' = NoGrant
    /\ ferr' = Nil
    /\ err' = Nil
    /\ hret' = NoHret
    /\ ret' = NoRet

\* no polling helper has been called yet
noHelper ==
    /\ helper' = "none"
    /\ phase' = "retry"
    /\ attempts' = 0
    /\ timedOut' = FALSE
    /\ UNCHANGED lookupVars

\* the helper h starts: Retry calls the function for the first time
startHelper(h) ==
    /\ helper' = h
    /\ phase' = "retry"
    /\ attempts' = 1
    /\ timedOut' = FALSE
    /\ pc' = "describe"
    /\ UNCHANGED lookupVars

deleted == op = "delete" /\ ret.err = Nil

resourceAwsRedshiftSnapshotCopyGrantCreate ==
    /\ pc = "idle"
    /\ id = "" \/ deleted
    /\ op' = "create"
    /\ pc' = "create_api"
    /\ noHelper
    /\ id' = ""
    /\ attrs' = NoAttrs
    /\ tagsChanged' = FALSE
    /\ freshLocals
    /\ UNCHANGED <<cfgName, remote>>

\* CreateSnapshotCopyGrant fails when the grant exists, and may fail anyway
CreateSnapshotCopyGrant ==
    /\ pc = "create_api"
    /\ calls' = [calls EXCEPT !.create = @ + 1]
    /\ \/ /\ remote = NoKms
          /\ \E k \in Kms \cup {NoKms} :
                remote' = IF k = NoKms THEN DefaultKms ELSE k
          /\ apiErr' = Nil
          /\ id' = cfgName
          /\ startHelper("find")
          /\ UNCHANGED ret
       \/ /\ \E c \in {"SnapshotCopyGrantAlreadyExistsFault", "InternalFailure"} :
                /\ c = "SnapshotCopyGrantAlreadyExistsFault" => remote # NoKms
                /\ apiErr' = AwsErr(c)
                /\ ret' = [found |-> FALSE,
                           err |-> Errorf("error creating Redshift Snapshot Copy Grant",
                                          AwsErr(c))]
          /\ pc' = "idle"
          /\ UNCHANGED <<remote, id, helper, phase, attempts, timedOut>>
          /\ UNCHANGED lookupVars
    /\ UNCHANGED <<cfgName, attrs, op, tagsChanged, described, grant, ferr, err, hret>>

resourceAwsRedshiftSnapshotCopyGrantRead ==
    /\ pc = "idle"
    /\ id # "" /\ ~deleted
    /\ op' = "read"
    /\ tagsChanged' = FALSE
    /\ freshLocals
    /\ startHelper("find")
    /\ UNCHANGED <<cfgName, id, attrs, remote>>

resourceAwsRedshiftSnapshotCopyGrantExists ==
    /\ pc = "idle"
    /\ id # "" /\ ~deleted
    /\ op' = "exists"
    /\ tagsChanged' = FALSE
    /\ freshLocals
    /\ startHelper("find")
    /\ UNCHANGED <<cfgName, id, attrs, remote>>

resourceAwsRedshiftSnapshotCopyGrantUpdate ==
    /\ pc = "idle"
    /\ id # "" /\ ~deleted
    /\ op' = "update"
    /\ pc' = "update_tags"
    /\ noHelper
    /\ tagsChanged' \in BOOLEAN
    /\ freshLocals
    /\ UNCHANGED <<cfgName, id, attrs, remote>>

\* as updateCallsTags, without the test of d.HasChange
updateCallsTagsAlways(changed) == TRUE

\* if d.HasChange("tags")
updateCallsTags(changed) == changed

\* keyvaluetags.RedshiftUpdateTags when the tags changed, then Read
RedshiftUpdateTags ==
    /\ pc = "update_tags"
    /\ IF updateCallsTags(tagsChanged)
       THEN /\ calls' = [calls EXCEPT !.tags = @ + 1]
            /\ \/ /\ apiErr' = Nil
                  /\ startHelper("find")
                  /\ UNCHANGED ret
               \/ /\ apiErr' = AwsErr("InternalFailure")
                  /\ ret' = [found |-> FALSE,
                             err |-> Errorf("error updating Redshift Snapshot Copy Grant tags",
                                            AwsErr("InternalFailure"))]
                  /\ pc' = "idle"
                  /\ UNCHANGED <<helper, phase, attempts, timedOut>>
                  /\ UNCHANGED lookupVars
       ELSE /\ startHelper("find")
            /\ UNCHANGED <<calls, apiErr, ret>>
    /\ UNCHANGED <<cfgName, id, attrs, remote, op, tagsChanged, described, grant,
                   ferr, err, hret>>

resourceAwsRedshiftSnapshotCopyGrantDelete ==
    /\ pc = "idle"
    /\ id # "" /\ ~deleted
    /\ op' = "delete"
    /\ pc' = "delete_api"
    /\ noHelper
    /\ tagsChanged' = FALSE
    /\ freshLocals
    /\ UNCHANGED <<cfgName, id, attrs, remote>>

\* as deleteOutcome, without the test for SnapshotCopyGrantNotFoundFault
deleteOutcomeKeepsNotFound(e) ==
    IF e # Nil THEN [wait |-> FALSE, err |-> e] ELSE [wait |-> TRUE, err |-> Nil]

\* what Delete does with the error of DeleteSnapshotCopyGrant
deleteOutcome(e) ==
    IF e # Nil
    THEN IF isAWSErr(e, ErrCodeSnapshotCopyGrantNotFoundFault)
         THEN [wait |-> FALSE, err |-> Nil]
         ELSE [wait |-> FALSE, err |-> e]
    ELSE [wait |-> TRUE, err |-> Nil]

\* DeleteSnapshotCopyGrant succeeds only when the grant exists
DeleteSnapshotCopyGrant ==
    /\ pc = "delete_api"
    /\ calls' = [calls EXCEPT !.delete = @ + 1]
    /\ \E e \in {Nil, AwsErr(ErrCodeSnapshotCopyGrantNotFoundFault),
                 AwsErr("InternalFailure")} :
          /\ e = Nil => remote # NoKms
          /\ isAWSErr(e, ErrCodeSnapshotCopyGrantNotFoundFault) => remote = NoKms
          /\ apiErr' = e
          /\ remote' = IF e = Nil THEN NoKms ELSE remote
          /\ IF deleteOutcome(e).wait
             THEN /\ startHelper("wait")
                  /\ UNCHANGED ret
             ELSE /\ ret' = [found |-> FALSE, err |-> deleteOutcome(e).err]
                  /\ pc' = "idle"
                  /\ UNCHANGED <<helper, phase, attempts, timedOut>>
                  /\ UNCHANGED lookupVars
    /\ UNCHANGED <<cfgName, id, attrs, op, tagsChanged, described, grant, ferr,
                   err, hret>>

\* arn.ARN{..., Resource: fmt.Sprintf("snapshotcopygrant:%s", grantName)}
grantArn(name) == <<"redshift", "snapshotcopygrant", name>>

\* as readOutcome, but a failed lookup removes the resource from state
readOutcomeDropsId(h, name) ==
    IF h.err # Nil
    THEN [id |-> "", set |-> FALSE, err |-> h.err]
    ELSE IF h.grant = NoGrant
    THEN [id |-> "", set |-> FALSE, err |-> Nil]
    ELSE [id |-> name, set |-> TRUE, err |-> Nil]

\* Read after the lookup; d.Set of the tags map does not fail
readOutcome(h, name) ==
    IF h.err # Nil
    THEN [id |-> name, set |-> FALSE, err |-> h.err]
    ELSE IF h.grant = NoGrant
    THEN [id |-> "", set |-> FALSE, err |-> Nil]
    ELSE [id |-> name, set |-> TRUE, err |-> Nil]

\* as ReadReturn, without d.Set("kms_key_id", ...)
ReadReturnKeepsKms ==
    /\ pc = "helper_ret"
    /\ op \in {"create", "read", "update"}
    /\ LET r == readOutcome(hret, grantName) IN
       /\ id' = r.id
       /\ attrs' = IF r.set
                   THEN [arn |-> grantArn(grantName),
                         kms_key_id |-> attrs.kms_key_id,
                         snapshot_copy_grant_name |-> hret.grant.name]
                   ELSE attrs
       /\ ret' = [found |-> FALSE, err |-> r.err]
    /\ pc' = "idle"
    /\ UNCHANGED <<cfgName, remote, op, tagsChanged, calls, apiErr, described, helper, phase,
                   attempts, timedOut, grant, ferr, err, hret>>
    /\ UNCHANGED lookupVars

ReadReturn ==
    /\ pc = "helper_ret"
    /\ op \in {"create", "read", "update"}
    /\ LET r == readOutcome(hret, grantName) IN
       /\ id' = r.id
       /\ attrs' = IF r.set
                   THEN [arn |-> grantArn(grantName),
                         kms_key_id |-> hret.grant.kms,
                         snapshot_copy_grant_name |-> hret.grant.name]
                   ELSE attrs
       /\ ret' = [found |-> FALSE, err |-> r.err]
    /\ pc' = "idle"
    /\ UNCHANGED <<cfgName, remote, op, tagsChanged, calls, apiErr, described, helper, phase,
                   attempts, timedOut, grant, ferr, err, hret>>
    /\ UNCHANGED lookupVars

\* Exists after the lookup
existsOutcome(h) ==
    IF h.err # Nil THEN [found |-> FALSE, err |-> h.err]
    ELSE IF h.grant # NoGrant THEN [found |-> TRUE, err |-> h.err]
    ELSE [found |-> FALSE, err |-> Nil]

ExistsReturn ==
    /\ pc = "helper_ret"
    /\ op = "exists"
    /\ ret' = existsOutcome(hret)
    /\ pc' = "idle"
    /\ UNCHANGED <<cfgName, id, attrs, remote, op, tagsChanged, calls, apiErr, described, helper,
                   phase, attempts, timedOut, grant, ferr, err, hret>>
    /\ UNCHANGED lookupVars

\* Delete returns what the wait returned
DeleteReturn ==
    /\ pc = "helper_ret"
    /\ op = "delete"
    /\ ret' = [found |-> FALSE, err |-> hret.err]
    /\ pc' = "idle"
    /\ UNCHANGED <<cfgName, id, attrs, remote, op, tagsChanged, calls, apiErr, described, helper,
                   phase, attempts, timedOut, grant, ferr, err, hret>>
    /\ UNCHANGED lookupVars

\* between two callbacks somebody else creates or deletes the grant
RemoteChange ==
    /\ pc = "idle"
    /\ \E k \in (Kms \cup {NoKms}) \ {remote} : remote' = k
    /\ UNCHANGED <<cfgName, id, attrs, op, pc, tagsChanged, calls, apiErr, described, helper, phase,
                   attempts, timedOut, input, marker, out, hits, grant, ferr, err, hret, ret>>

Init ==
    /\ cfgName \in Names
    /\ id = ""
    /\ attrs = NoAttrs
    /\ remote \in Kms \cup {NoKms}
    /\ op = "none"
    /\ pc = "idle"
    /\ tagsChanged = FALSE
    /\ calls = NoCalls
    /\ apiErr = Nil
    /\ described = FALSE
    /\ helper = "none"
    /\ phase = "retry"
    /\ attempts = 0
    /\ timedOut = FALSE
    /\ input = NoInput
    /\ marker = NoMarker
    /\ out = NoOut
    /\ hits = <<>>
    /\ grant = NoGrant
    /\ ferr = Nil
    /\ err = Nil
    /\ hret = NoHret
    /\ ret = NoRet

Next ==
    \/ resourceAwsRedshiftSnapshotCopyGrantCreate
    \/ CreateSnapshotCopyGrant
    \/ resourceAwsRedshiftSnapshotCopyGrantRead
    \/ resourceAwsRedshiftSnapshotCopyGrantExists
    \/ resourceAwsRedshiftSnapshotCopyGrantUpdate
    \/ RedshiftUpdateTags
    \/ resourceAwsRedshiftSnapshotCopyGrantDelete
    \/ DeleteSnapshotCopyGrant
    \/ findAwsRedshiftSnapshotCopyGrant
    \/ RetryReturn
    \/ RetryAgain
    \/ RetryTimeout
    \/ FinalLookup
    \/ HelperReturn
    \/ ReadReturn
    \/ ExistsReturn
    \/ DeleteReturn
    \/ RemoteChange

Spec == Init /\ [][Next]_vars

\* the steps of the two polling helpers, from the first call of the retry
\* function to the helper's return
HelperNext ==
    \/ findAwsRedshiftSnapshotCopyGrant
    \/ RetryReturn
    \/ RetryAgain
    \/ RetryTimeout
    \/ FinalLookup
    \/ HelperReturn

\* a helper that has been called runs on: every DescribeSnapshotCopyGrants
\* call returns, and Retry and the helper's own code take their next step
LiveSpec == Spec /\ WF_vars(HelperNext)


(***************************************************************************)
(* Properties                                                              *)
(***************************************************************************)
\* the lookup reported that there is no grant of the name: the service's
\* SnapshotCopyGrantNotFoundFault, or the lookup's own NotFoundError
absent(e) ==
    \/ isAWSErr(e, ErrCodeSnapshotCopyGrantNotFoundFault)
    \/ e.type = "NotFoundError"

\* what the callback or the helper has returned
returned == IF pc = "helper_ret" THEN hret.err ELSE ret.err

\* C1: whenever the delete wait (and Delete after it) returns no error, its
\* most recent lookup did not find a grant named grantName, on the path of
\* the final lookup after the timeout too.
C1_WaitReturnsNilOnlyWhenGone ==
    (helper = "wait" /\ pc \in {"helper_ret", "idle"} /\ returned = Nil)
        => grant = NoGrant

\* C2: in the delete wait, once a lookup has established that there is no
\* grant of the name, by SnapshotCopyGrantNotFoundFault or by NotFoundError,
\* the wait polls no more and returns no error.
C2_WaitStopsWithoutErrorOnAbsence ==
    (helper = "wait" /\ absent(ferr)) =>
        /\ pc # "describe"
        /\ pc = "after_retry" => err = Nil
        /\ pc \in {"helper_ret", "idle"} => returned = Nil

\* C3: when no lookup of Read, the final one after the timeout included,
\* finds the grant of the resource ID, Read sets the ID to the empty string
\* and returns no error.
C3_ReadRemovesMissingGrantFromState ==
    (op \in {"create", "read", "update"} /\ helper = "find" /\ pc = "idle"
        /\ absent(ferr))
        => (id = "" /\ ret.err = Nil)

\* C4: Exists returns (true, nil) when the lookup returned the grant,
\* (false, nil) when there is no such grant, and (false, error) only when the
\* lookup failed for another reason than the grant being absent.
C4_ExistsAnswersWithoutFailingOnAbsence ==
    (op = "exists" /\ pc = "idle") =>
        /\ grant # NoGrant => ret = [found |-> TRUE, err |-> Nil]
        /\ absent(ferr) => ret = [found |-> FALSE, err |-> Nil]
        /\ ret.err # Nil => (~ret.found /\ ~absent(ferr))


\* C5: after Create the ID is the configured name if and only if
\* CreateSnapshotCopyGrant succeeded; a failed call gives an error, no ID and
\* no DescribeSnapshotCopyGrants call, and after a successful call the ID
\* stays the grant name during Read and when Read returns an error.
C5_CreateSetsIdIffGrantCreated ==
    op = "create" =>
        /\ pc = "idle" => (id = cfgName <=> apiErr = Nil)
        /\ (pc = "idle" /\ apiErr # Nil) =>
              (ret.err # Nil /\ id = "" /\ ~described /\ helper = "none")
        /\ pc \notin {"create_api", "idle"} => id = cfgName

\* Create succeeded in creating the grant, the Read after it failed
C5_Witness ==
    /\ op = "create" /\ pc = "idle"
    /\ apiErr = Nil /\ ret.err # Nil /\ id = cfgName

\* C6: Update calls the tag API exactly when the tags have changed, never
\* CreateSnapshotCopyGrant nor DeleteSnapshotCopyGrant, and leaves the remote
\* grant as it is; a failed tag update is returned without Read, and
\* otherwise Update goes on to Read and returns what Read returns.
C6_UpdateChangesTagsOnly ==
    [][(op' = "update" /\ (pc # "idle" \/ pc' # "idle")) =>
        /\ remote' = remote
        /\ calls'.create = 0 /\ calls'.delete = 0
        /\ pc' # "update_tags" => calls'.tags = (IF tagsChanged' THEN 1 ELSE 0)
        /\ pc = "update_tags" =>
              /\ apiErr' # Nil =>
                    (pc' = "idle" /\ ret'.err # Nil /\ ~described' /\ helper' = "none")
              /\ apiErr' = Nil => (pc' = "describe" /\ helper' = "find")
        /\ (pc' = "idle" /\ apiErr' = Nil) =>
              (described' /\ ret'.err = hret'.err)
      ]_vars

\* the tags had changed, the tag API was called and Read succeeded
C6_Witness ==
    /\ op = "update" /\ pc = "idle"
    /\ tagsChanged /\ calls.tags = 1 /\ apiErr = Nil /\ ret.err = Nil

\* C7: Delete returns nil without polling when DeleteSnapshotCopyGrant fails
\* with SnapshotCopyGrantNotFoundFault, returns any other error of that call
\* without polling, and only after a successful call starts the delete
\* wait, whose result is then Delete's result.
C7_DeleteToleratesAbsentGrant ==
    (op = "delete" /\ pc # "delete_api") =>
        /\ isAWSErr(apiErr, ErrCodeSnapshotCopyGrantNotFoundFault) =>
              (pc = "idle" /\ ret.err = Nil /\ ~described /\ helper = "none")
        /\ (apiErr # Nil /\ ~isAWSErr(apiErr, ErrCodeSnapshotCopyGrantNotFoundFault)) =>
              (pc = "idle" /\ ret.err = apiErr /\ ~described /\ helper = "none")
        /\ apiErr = Nil => helper = "wait"
        /\ (apiErr = Nil /\ pc = "idle") => (described /\ ret.err = hret.err)

\* the grant was gone already when Delete called DeleteSnapshotCopyGrant
C7_Witness ==
    /\ op = "delete" /\ pc = "idle"
    /\ isAWSErr(apiErr, ErrCodeSnapshotCopyGrantNotFoundFault)
    /\ ret.err = Nil

\* C8: when the first lookups of findAwsRedshiftSnapshotCopyGrantWithRetry
\* ended in NotFoundError and a later one, in the retry or the final one after
\* the timeout, returns the grant, the helper returns that grant and no
\* error; the Read of a Create then succeeds.
C8_LookupToleratesEventualConsistency ==
    (helper = "find" /\ (attempts >= 2 \/ phase = "final") /\ grant # NoGrant) =>
        /\ pc = "helper_ret" => hret = [grant |-> grant, err |-> Nil]
        /\ (pc = "idle" /\ op = "create") =>
              /\ ret.err = Nil
              /\ id = cfgName
              /\ attrs.snapshot_copy_grant_name = cfgName

\* the grant showed up in the final lookup after the timeout, during Create
C8_Witness ==
    /\ op = "create" /\ pc = "idle" /\ helper = "find"
    /\ phase = "final" /\ grant # NoGrant /\ ret.err = Nil

\* an error of DescribeSnapshotCopyGrants that does not say the grant is gone
otherError(h, e) ==
    /\ e.type = "awserr"
    /\ ~(h = "wait" /\ isAWSErr(e, ErrCodeSnapshotCopyGrantNotFoundFault))

firstNamed(page, name) ==
    page[CHOOSE i \in 1..Len(page) :
            /\ page[i].name = name
            /\ \A j \in 1..(i - 1) : page[j].name # name]

C11_MarkerAndNameAreExclusive ==
    [][Len(hits') = Len(hits) + 1 =>
        /\ input'.sent
        /\ (input'.Marker # NoMarker) # (input'.SnapshotCopyGrantName # NoName)
        /\ Len(hits) = 0 =>
              (input'.SnapshotCopyGrantName = grantName /\ input'.Marker = NoMarker)
        /\ Len(hits) > 0 =>
              /\ out.marker # NoMarker
              /\ input'.Marker = out.marker
              /\ input'.SnapshotCopyGrantName = NoName
      ]_vars

\* the final lookup after a timeout has asked for a second page by marker
C11_Witness ==
    /\ phase = "final" /\ Len(hits) = 2
    /\ input.Marker = "m2" /\ input.SnapshotCopyGrantName = NoName


\* C12: polling is bounded: a helper that has been called returns, whatever
\* the remote does.  After Retry has returned the helper makes one more lookup
\* exactly when Retry's error is a timeout error without a last error, that
\* lookup is a single attempt after which the helper returns, and a helper
\* that has returned makes no further lookup.
C12_PollingIsBounded ==
    /\ (pc = "describe") ~> (pc = "helper_ret")
    /\ [][/\ pc = "after_retry" =>
               /\ phase = "retry"
               /\ isResourceTimeoutError(err) =>
                     (pc' = "describe" /\ phase' = "final")
               /\ ~isResourceTimeoutError(err) => pc' = "helper_ret"
          /\ (pc = "attempt_done" /\ phase = "final") => pc' = "helper_ret"
          /\ pc = "helper_ret" => pc' = "idle"
         ]_vars

\* the wait timed out while the grant was still there, looked once more and
\* returned
C12_Witness ==
    /\ helper = "wait" /\ pc = "helper_ret"
    /\ timedOut /\ phase = "final"
    /\ attempts = MaxAttempts
    /\ grant # NoGrant

\* C12 as stated: once the retry timeout has fired, the helper makes exactly
\* one more lookup and then returns
C12_ExactlyOneLookupAfterTimeout ==
    (helper # "none" /\ timedOut /\ pc = "helper_ret") => phase = "final"


\* C13: findAwsRedshiftSnapshotCopyGrantWithRetry returns either a grant of
\* the name asked for and no error, or no grant and an error: never neither,
\* never both.
C13_FindReturnsGrantXorError ==
    (pc = "helper_ret" /\ helper = "find") =>
        \/ /\ hret.grant # NoGrant
           /\ hret.grant.name = grantName
           /\ hret.err = Nil
        \/ /\ hret.grant = NoGrant
           /\ hret.err # Nil

\* the lookup after the timeout failed: no grant, and the error
C13_Witness ==
    /\ pc = "helper_ret" /\ helper = "find"
    /\ phase = "final" /\ attempts = MaxAttempts
    /\ hret.grant = NoGrant
    /\ hret.err = Errorf("Error finding snapshot copy grant", NotFoundError(grantName))

\* C14: after a Create, Read or Update that returned no error and left the
\* resource with an ID, the stored name is the ID, the stored arn is that of
\* snapshotcopygrant:<ID>, and the stored key is the one of the grant the
\* call's lookup returned.
C14_StateMirrorsLookedUpGrant ==
    (/\ pc = "idle"
     /\ op \in {"create", "read", "update"}
     /\ ret.err = Nil
     /\ id # "") =>
        /\ attrs.snapshot_copy_grant_name = id
        /\ attrs.arn = <<"redshift", "snapshotcopygrant", id>>
        /\ hret.grant # NoGrant
        /\ hret.err = Nil
        /\ attrs.kms_key_id = hret.grant.kms

\* an Update re-read the grant after its key had changed remotely
C14_Witness ==
    /\ pc = "idle" /\ op = "update"
    /\ ret.err = Nil /\ id = "g2"
    /\ tagsChanged
    /\ attrs.kms_key_id = "k2" /\ hret.grant.kms = "k2"
    /\ attrs.snapshot_copy_grant_name = "g2"

====
